---- MODULE Spec2Model ----
(***************************************************************************)
(* The /vision/stream connection handler (backend/app/routers/vision.py)   *)
(* and the session factory it uses (backend/app/services/                  *)
(* vision_inference.py), as a state machine of one connection.             *)
(*                                                                         *)
(* Values carried by result maps and acks are integers: a string is        *)
(* represented by a code, the empty string by 0, so that Python's          *)
(* truthiness of a value is "differs from 0" for strings and numbers       *)
(* alike.  A map is a pair: vals (the keys whose value is not None, with    *)
(* their values) and nulls (the keys whose value is None).                 *)
(***************************************************************************)
EXTENDS Integers, Sequences, FiniteSets, TLC

\* ------------------------------------------------------------------ bounds
MaxFrames == 3
MaxBufferEnv == 2
\* connections the process accepts one after the other
MaxConnections == 2

\* env values of VISION_CHUNK_SECONDS (ticks of the monotonic clock)
ChunkSecondsEnv == {-1, 0, 1}
\* env values of VISION_MAX_BUFFER_FRAMES
BufferFramesEnv == 0..MaxBufferEnv
\* byte lengths of the frames a peer sends
FrameSizes == {0, 3}
\* how far time.monotonic() may have advanced between two readings
TickChoices == {0, 1}
\* values time.monotonic() may return when the connection is accepted
StartClockChoices == {1}
\* latencies measured by ModalVisionInferenceSession.infer_chunk
LatencyChoices == {4}

\* ------------------------------------------------------------ value codes
NONE == "None"
EmptyString == 0
CaptionText == 7
NonDictMessage == 6
EchoedNumber == 9

Max2(a, b) == IF a >= b THEN a ELSE b

\* ------------------------------------------------------------------- maps
EmptyVals == <<>>
EmptyMap == [vals |-> EmptyVals, nulls |-> {}]
MapKeys(m) == (DOMAIN m.vals) \cup m.nulls
\* bool(d) of a dict d
DictTruthy(m) == MapKeys(m) # {}
\* bool(d.get(k))
GetTruthy(m, k) == k \in DOMAIN m.vals /\ m.vals[k] # EmptyString
\* d.setdefault(k, v): an existing key keeps its value, None included
SetDefault(m, k, v) ==
    IF k \in MapKeys(m) THEN m
    ELSE [vals |-> (k :> v) @@ m.vals, nulls |-> m.nulls]
\* payload.update(result): the fields whose value is None are merged as well
\* (None shown as -1)
PayloadUpdateKeepingNulls(payload, m) ==
    [k \in (DOMAIN payload) \cup MapKeys(m) |->
        IF k \in DOMAIN m.vals THEN m.vals[k]
        ELSE IF k \in m.nulls THEN -1 ELSE payload[k]]

\* payload.update({k: v for k, v in result.items() if v is not None})
PayloadUpdate(payload, m) ==
    [k \in (DOMAIN payload) \cup (DOMAIN m.vals) |->
        IF k \in DOMAIN m.vals THEN m.vals[k] ELSE payload[k]]

\* --------------------------------------------------- what the remote returns
RemoteResponses ==
    { [kind |-> "dict", vals |-> ("caption" :> CaptionText), nulls |-> {}, msg |-> EmptyString],
      [kind |-> "dict",
       vals |-> ("frame" :> EchoedNumber) @@ ("bytes" :> EchoedNumber),
       nulls |-> {"caption"}, msg |-> EmptyString],
      [kind |-> "nondict", vals |-> EmptyVals, nulls |-> {}, msg |-> EmptyString],
      [kind |-> "raise", vals |-> EmptyVals, nulls |-> {}, msg |-> EmptyString] }

\* outcome of a finished task: a returned map or a raised exception's str()
Returned(m) == [ok |-> TRUE, vals |-> m.vals, nulls |-> m.nulls, msg |-> EmptyString]
Raised(msg) == [ok |-> FALSE, vals |-> EmptyVals, nulls |-> {}, msg |-> msg]

\* a no-op session that answers with a placeholder caption
NoopInferChunkCaptioning ==
    Returned([vals |-> ("caption" :> EmptyString), nulls |-> {}])

NoopInferChunk == Returned(EmptyMap)

ModalInferChunk(response, latency) ==
    IF response.kind = "raise" THEN Raised(response.msg)
    ELSE IF response.kind # "dict" THEN Raised(NonDictMessage)
    ELSE Returned(SetDefault([vals |-> response.vals, nulls |-> response.nulls],
                             "latency_ms", latency))

InferOutcomes(session) ==
    IF session.kind = "noop" THEN {NoopInferChunk}
    ELSE {ModalInferChunk(r, l) : r \in RemoteResponses, l \in LatencyChoices}

\* ------------------------------------------------------------ open_session
\* a header as the peer sent it: absent, empty, blank, or a token
HeaderValues == {NONE, "", " ", "tok"}
Strip(s) == IF s = " " THEN "" ELSE s
Falsy(s) == s = NONE \/ s = ""
Or2(a, b) == IF Falsy(a) THEN b ELSE a

header_value(h) == IF Falsy(h) THEN NONE ELSE Strip(h)

\* os.environ at process start, the four variables the credentials are read
\* from: a deployment that sets none of them, so that a token comes from the
\* headers or from what lines 165-166 wrote into the environment
EnvChoices ==
    { [MODAL_TOKEN_ID |-> NONE, MODAL_TOKEN_SECRET |-> NONE,
       FORESIGHT_MODAL_TOKEN_ID |-> NONE, FORESIGHT_MODAL_TOKEN_SECRET |-> NONE] }

resolve_modal_config(headers, env) ==
    [token_id |-> Or2(Or2(header_value(headers.id), env.MODAL_TOKEN_ID),
                      env.FORESIGHT_MODAL_TOKEN_ID),
     token_secret |-> Or2(Or2(header_value(headers.secret), env.MODAL_TOKEN_SECRET),
                          env.FORESIGHT_MODAL_TOKEN_SECRET)]

EnvSetDefault(env, config) ==
    [env EXCEPT !.MODAL_TOKEN_ID = IF @ = NONE THEN config.token_id ELSE @,
                !.MODAL_TOKEN_SECRET = IF @ = NONE THEN config.token_secret ELSE @]

\* the points of the initialization at which the SDK may raise
InitFailures == {"none", "from_credentials", "from_name", "remote_cls"}

NoopSession == [kind |-> "noop", client |-> FALSE]
UnopenedSession == [kind |-> "none", client |-> FALSE]

\* open_session without the except clause of lines 171-182: a failure of the
\* initialization leaves the call
open_session_propagating(headers, env, importOk, factoryCallable, initFailure, clientCloseRaises) ==
    LET config == resolve_modal_config(headers, env) IN
    IF Falsy(config.token_id) \/ Falsy(config.token_secret)
    THEN [session |-> NoopSession, env |-> env, client_closed |-> FALSE, raised |-> FALSE]
    ELSE IF ~importOk
    THEN [session |-> NoopSession, env |-> env, client_closed |-> FALSE, raised |-> FALSE]
    ELSE IF factoryCallable
    THEN [session |-> [kind |-> "modal", client |-> TRUE], env |-> env,
          client_closed |-> FALSE, raised |-> initFailure # "none"]
    ELSE [session |-> [kind |-> "modal", client |-> FALSE],
          env |-> EnvSetDefault(env, config), client_closed |-> FALSE,
          raised |-> initFailure \notin {"none", "from_credentials"}]

\* ModalVisionInferenceClient.open_session: the session returned, os.environ
\* afterwards, whether the half-built client was closed, and whether the call raised
open_session(headers, env, importOk, factoryCallable, initFailure, clientCloseRaises) ==
    LET config == resolve_modal_config(headers, env) IN
    IF Falsy(config.token_id) \/ Falsy(config.token_secret)
    THEN [session |-> NoopSession, env |-> env, client_closed |-> FALSE, raised |-> FALSE]
    ELSE IF ~importOk
    THEN [session |-> NoopSession, env |-> env, client_closed |-> FALSE, raised |-> FALSE]
    ELSE IF factoryCallable
    THEN IF initFailure = "none"
         THEN [session |-> [kind |-> "modal", client |-> TRUE], env |-> env,
               client_closed |-> FALSE, raised |-> FALSE]
         ELSE [session |-> NoopSession, env |-> env,
               client_closed |-> initFailure # "from_credentials" /\ ~clientCloseRaises,
               raised |-> FALSE]
    ELSE IF initFailure \in {"none", "from_credentials"}
         THEN [session |-> [kind |-> "modal", client |-> FALSE],
               env |-> EnvSetDefault(env, config), client_closed |-> FALSE,
               raised |-> FALSE]
         ELSE [session |-> NoopSession, env |-> EnvSetDefault(env, config),
               client_closed |-> FALSE, raised |-> FALSE]

\* ------------------------------------------------------------------ state
VARIABLES
    VISION_CHUNK_SECONDS,      \* vision.py:16
    VISION_MAX_BUFFER_FRAMES,  \* vision.py:17
    os_environ,
    clock,                     \* the last reading of time.monotonic()
    pc,
    frame_count, chunk_count, inference_failures,
    start_time, chunk_window_start,
    buffered_frames,
    pending_inference_task,    \* 0 is None, otherwise the task's number
    latest_inference_result,
    inference_session,
    tasks,                     \* the tasks created by asyncio.create_task
    acks,                      \* the payloads handed to ws.send_json, in order
    open_case,                 \* what the open_session call met
    exit_cause,                \* how the receive loop was left
    close_calls, close_outcome, summary, handler_result,
    appended_since_cut,
    connections,               \* connections the process has accepted so far
    environ_at_start           \* os.environ when the process started

vars == <<VISION_CHUNK_SECONDS, VISION_MAX_BUFFER_FRAMES, os_environ, clock, pc,
          frame_count, chunk_count, inference_failures, start_time,
          chunk_window_start, buffered_frames, pending_inference_task,
          latest_inference_result, inference_session, tasks, acks, open_case,
          exit_cause, close_calls, close_outcome, summary, handler_result, appended_since_cut,
          connections, environ_at_start>>

\* what no step of a connection's handler changes
config_vars == <<VISION_CHUNK_SECONDS, VISION_MAX_BUFFER_FRAMES, connections,
                 environ_at_start>>

NoResult == [set |-> FALSE, vals |-> EmptyVals, nulls |-> {}, chunk |-> 0]
NoSummary == [emitted |-> FALSE, frames |-> 0, chunks |-> 0, inference_failures |-> 0]
NoCloseOutcome == [called |-> FALSE, raised |-> FALSE, remote_failed |-> FALSE,
                   remote_closed |-> FALSE, client_close_tried |-> FALSE,
                   client_failed |-> FALSE, client_closed |-> FALSE]
NoOpenCase == [called |-> FALSE, creds_missing |-> FALSE, import_failed |-> FALSE,
               init_raised |-> FALSE, alone |-> UnopenedSession]

Init ==
    /\ \E e \in ChunkSecondsEnv : VISION_CHUNK_SECONDS = Max2(e, 0)
    /\ \E e \in BufferFramesEnv : VISION_MAX_BUFFER_FRAMES = Max2(e, 1)
    /\ os_environ \in EnvChoices
    /\ clock \in StartClockChoices
    /\ pc = "connecting"
    /\ frame_count = 0
    /\ chunk_count = 0
    /\ inference_failures = 0
    /\ start_time = 0
    /\ chunk_window_start = 0
    /\ buffered_frames = <<>>
    /\ pending_inference_task = 0
    /\ latest_inference_result = NoResult
    /\ inference_session = UnopenedSession
    /\ tasks = <<>>
    /\ acks = <<>>
    /\ open_case = NoOpenCase
    /\ exit_cause = "none"
    /\ close_calls = 0
    /\ close_outcome = NoCloseOutcome
    /\ summary = NoSummary
    /\ handler_result = "running"
    /\ appended_since_cut = 0
    /\ connections = 1
    /\ environ_at_start = os_environ

\* ------------------------------------------------------------- the buffer
\* a deque without maxlen: nothing is evicted
deque_append_unbounded(buf, x, maxlen) == Append(buf, x)

\* a bounded buffer that refuses the new frame when it is full
deque_append_dropping_newest(buf, x, maxlen) ==
    IF Len(buf) >= maxlen THEN buf ELSE Append(buf, x)

\* deque(maxlen=n).appendleft(x): the newest frame first, the last one dropped
deque_append_left(buf, x, maxlen) ==
    IF Len(buf) >= maxlen THEN <<x>> \o SubSeq(buf, 1, Len(buf) - 1) ELSE <<x>> \o buf

\* deque(maxlen=n).append(x)
deque_append(buf, x, maxlen) ==
    IF Len(buf) >= maxlen THEN Append(Tail(buf), x) ELSE Append(buf, x)

\* ------------------------------------------------- video_stream, lines 44-54
Connect ==
    /\ pc = "connecting"
    /\ \E headers \in [id : HeaderValues, secret : HeaderValues],
          importOk \in BOOLEAN, factoryCallable \in BOOLEAN,
          initFailure \in InitFailures, clientCloseRaises \in BOOLEAN :
         LET opened == open_session(headers, os_environ, importOk, factoryCallable,
                                    initFailure, clientCloseRaises)
             config == resolve_modal_config(headers, os_environ)
             missing == Falsy(config.token_id) \/ Falsy(config.token_secret)
             \* the same call in a process no other connection has touched
             alone == open_session(headers, environ_at_start, importOk,
                                   factoryCallable, initFailure, clientCloseRaises)
         IN /\ os_environ' = opened.env
            /\ open_case' = [called |-> TRUE,
                             alone |-> alone.session,
                             creds_missing |-> missing,
                             import_failed |-> ~missing /\ ~importOk,
                             init_raised |-> /\ ~missing
                                             /\ importOk
                                             /\ initFailure # "none"
                                             /\ (factoryCallable
                                                 \/ initFailure # "from_credentials")]
            /\ IF opened.raised
               THEN /\ pc' = "closed"
                    /\ handler_result' = "raised"
                    /\ inference_session' = inference_session
               ELSE /\ pc' = "streaming"
                    /\ handler_result' = handler_result
                    /\ inference_session' = opened.session
    /\ start_time' = clock
    /\ chunk_window_start' = clock
    /\ UNCHANGED <<config_vars, clock, frame_count, chunk_count, inference_failures,
                   buffered_frames, pending_inference_task, latest_inference_result,
                   tasks, acks, exit_cause, close_calls, close_outcome, summary, appended_since_cut>>

\* _consume_inference_task without its except clause: the failure is raised again
consume_reraising(task) ==
    IF task.ok THEN [raised |-> FALSE, vals |-> task.vals, nulls |-> task.nulls]
    ELSE [raised |-> TRUE, vals |-> EmptyVals, nulls |-> {}]

\* ----------------------------------------------------- _consume_inference_task
\* the map the await of a finished task yields: its result, or the failure as data
consume_inference_task(task) ==
    IF task.ok THEN [raised |-> FALSE, vals |-> task.vals, nulls |-> task.nulls]
    ELSE [raised |-> FALSE, vals |-> ("inference_error" :> task.msg), nulls |-> {}]

TaskDone(t) == tasks[t].status = "done"

\* a poll that clears the slot of a finished task but loses what it returned
PollDroppingResult ==
    IF pending_inference_task # 0 /\ TaskDone(pending_inference_task)
    THEN [raised |-> FALSE, task |-> 0, result |-> latest_inference_result,
          failures |-> inference_failures, drained |-> pending_inference_task]
    ELSE [raised |-> FALSE, task |-> pending_inference_task,
          result |-> latest_inference_result,
          failures |-> inference_failures, drained |-> 0]

\* a poll without line 71: the drained computation stays in the slot
PollKeepingSlot ==
    IF pending_inference_task # 0 /\ TaskDone(pending_inference_task)
    THEN LET r == consume_inference_task(tasks[pending_inference_task])
         IN [raised |-> FALSE, task |-> pending_inference_task,
             result |-> [set |-> TRUE, vals |-> r.vals, nulls |-> r.nulls,
                         chunk |-> pending_inference_task],
             failures |-> IF GetTruthy(r, "inference_error")
                          THEN inference_failures + 1 ELSE inference_failures,
             drained |-> pending_inference_task]
    ELSE [raised |-> FALSE, task |-> pending_inference_task,
          result |-> latest_inference_result,
          failures |-> inference_failures, drained |-> 0]

\* a poll without the done() test: it awaits whatever the slot holds
PollAwaiting ==
    IF pending_inference_task # 0
    THEN LET r == consume_inference_task(tasks[pending_inference_task])
         IN [raised |-> FALSE, task |-> 0,
             result |-> [set |-> TRUE, vals |-> r.vals, nulls |-> r.nulls,
                         chunk |-> pending_inference_task],
             failures |-> IF GetTruthy(r, "inference_error")
                          THEN inference_failures + 1 ELSE inference_failures,
             drained |-> pending_inference_task]
    ELSE [raised |-> FALSE, task |-> pending_inference_task,
          result |-> latest_inference_result,
          failures |-> inference_failures, drained |-> 0]

\* ------------------------------------------------ video_stream, lines 64-71
\* the poll: [task, result, failures, drained] after it
Poll ==
    IF pending_inference_task # 0 /\ TaskDone(pending_inference_task)
    THEN LET r == consume_inference_task(tasks[pending_inference_task])
         IN IF r.raised
            THEN [raised |-> TRUE, task |-> pending_inference_task,
                  result |-> latest_inference_result,
                  failures |-> inference_failures, drained |-> 0]
            ELSE [raised |-> FALSE, task |-> 0,
                  result |-> [set |-> TRUE, vals |-> r.vals, nulls |-> r.nulls,
                              chunk |-> pending_inference_task],
                  failures |-> IF GetTruthy(r, "inference_error")
                               THEN inference_failures + 1 ELSE inference_failures,
                  drained |-> pending_inference_task]
    ELSE [raised |-> FALSE, task |-> pending_inference_task,
          result |-> latest_inference_result,
          failures |-> inference_failures,
          drained |-> 0]

\* the cut condition without the test of the slot
CutDueIgnoringSlot(task, buf, now) ==
    /\ buf # <<>>
    /\ now - chunk_window_start >= VISION_CHUNK_SECONDS

\* a cut condition that compares the elapsed time with > instead of >=
CutDueStrictlyLater(task, buf, now) ==
    /\ task = 0
    /\ buf # <<>>
    /\ now - chunk_window_start > VISION_CHUNK_SECONDS

\* a cut condition that waits for the buffer to be full
CutDueWhenFull(task, buf, now) ==
    /\ task = 0
    /\ Len(buf) >= VISION_MAX_BUFFER_FRAMES
    /\ now - chunk_window_start >= VISION_CHUNK_SECONDS

\* ------------------------------------------------ video_stream, line 74
CutDue(task, buf, now) ==
    /\ task = 0
    /\ buf # <<>>
    /\ now - chunk_window_start >= VISION_CHUNK_SECONDS

\* a task whose window is measured from the connection's start instead of the
\* previous cut
NewTaskFromConnectionStart(frames, start_s, end_s) ==
    [status |-> "running", ok |-> TRUE, vals |-> EmptyVals, nulls |-> {},
     msg |-> EmptyString, frames |-> frames, start_ts_s |-> 0,
     end_ts_s |-> end_s, launched_at |-> frame_count + 1, done_at |-> 0,
     drained |-> FALSE]

\* a task created with the two timestamps in each other's place
NewTaskSwappedTimes(frames, start_s, end_s) ==
    [status |-> "running", ok |-> TRUE, vals |-> EmptyVals, nulls |-> {},
     msg |-> EmptyString, frames |-> frames, start_ts_s |-> end_s,
     end_ts_s |-> start_s, launched_at |-> frame_count + 1, done_at |-> 0,
     drained |-> FALSE]

NewTask(frames, start_s, end_s) ==
    [status |-> "running", ok |-> TRUE, vals |-> EmptyVals, nulls |-> {},
     msg |-> EmptyString, frames |-> frames, start_ts_s |-> start_s,
     end_ts_s |-> end_s, launched_at |-> frame_count + 1, done_at |-> 0,
     drained |-> FALSE]

\* the ack composed without lines 98-100: the pending result is never merged
ComposeAckWithoutMerge(count, size, result) ==
    [payload |-> ("frame" :> count) @@ ("bytes" :> size), merged |-> 0, left |-> result]

\* the ack composed without line 100: the pending result is not cleared
ComposeAckKeepingResult(count, size, result) ==
    LET base == ("frame" :> count) @@ ("bytes" :> size)
        merge == result.set /\ DictTruthy(result)
    IN [payload |-> IF merge THEN PayloadUpdate(base, result) ELSE base,
        merged |-> IF merge THEN result.chunk ELSE 0,
        left |-> result]

\* ------------------------------------------------ video_stream, lines 94-100
\* the payload of the ack and the pending result left after composing it
ComposeAck(count, size, result) ==
    LET base == ("frame" :> count) @@ ("bytes" :> size)
        merge == result.set /\ DictTruthy(result)
    IN [payload |-> IF merge THEN PayloadUpdate(base, result) ELSE base,
        merged |-> IF merge THEN result.chunk ELSE 0,
        left |-> IF merge THEN NoResult ELSE result]

\* what receive_bytes may return next: a frame with data, or an empty frame
\* (len(data) = 0), of which a peer sends at most one per connection
PeerMaySend(size) ==
    size # 0 \/ \A i \in DOMAIN acks : acks[i].data_len # 0

\* ------------------------------------------------ video_stream, lines 58-101
\* one frame: from the return of receive_bytes to the call of send_json
ReceiveFrame ==
    /\ pc = "streaming"
    /\ frame_count < MaxFrames
    /\ \E size \in {sz \in FrameSizes : PeerMaySend(sz)}, tick \in TickChoices :
         LET now == clock + tick
             data == [seq |-> frame_count + 1, size |-> size]
             buf == deque_append(buffered_frames, data, VISION_MAX_BUFFER_FRAMES)
             polled == Poll
             tasks1 == IF polled.drained = 0 THEN tasks
                       ELSE [tasks EXCEPT ![polled.drained].drained = TRUE]
             cut == CutDue(polled.task, buf, now)
             chunk_start_s == Max2(chunk_window_start - start_time, 0)
             chunk_end_s == Max2(now - start_time, chunk_start_s)
             ack == ComposeAck(frame_count + 1, data.size, polled.result)
         IN /\ clock' = now
            /\ frame_count' = frame_count + 1
            /\ inference_failures' = polled.failures
            /\ IF polled.raised
               THEN \* the poll raised: the step is abandoned at line 65 and the
                    \* exception leaves the handler
                    /\ buffered_frames' = buf
                    /\ pc' = "closed"
                    /\ exit_cause' = "error"
                    /\ handler_result' = "raised"
                    /\ UNCHANGED <<chunk_window_start, chunk_count, tasks,
                                   pending_inference_task, appended_since_cut,
                                   latest_inference_result, acks>>
               ELSE /\ pc' = "sending"
                    /\ UNCHANGED <<exit_cause, handler_result>>
                    /\ IF cut
                       THEN /\ buffered_frames' = <<>>
                            /\ chunk_window_start' = now
                            /\ chunk_count' = chunk_count + 1
                            /\ tasks' = Append(tasks1,
                                               NewTask(buf, chunk_start_s, chunk_end_s))
                            /\ pending_inference_task' = Len(tasks1) + 1
                            /\ appended_since_cut' = 0
                       ELSE /\ buffered_frames' = buf
                            /\ chunk_window_start' = chunk_window_start
                            /\ chunk_count' = chunk_count
                            /\ tasks' = tasks1
                            /\ pending_inference_task' = polled.task
                            /\ appended_since_cut' = appended_since_cut + 1
                    /\ latest_inference_result' = ack.left
                    /\ acks' = Append(acks, [payload |-> ack.payload,
                                             merged |-> ack.merged,
                                             data_len |-> data.size])
    /\ UNCHANGED <<config_vars, os_environ, start_time, inference_session, open_case,
                   close_calls, close_outcome, summary>>

\* ------------------------------------------------ the task of lines 81-88
\* the computation finishes while the handler is suspended in receive_bytes or
\* send_json
InferenceSettles ==
    /\ pc \in {"streaming", "sending"}
    /\ frame_count < MaxFrames
    /\ \E t \in DOMAIN tasks :
         /\ tasks[t].status = "running"
         /\ \E o \in InferOutcomes(inference_session) :
              tasks' = [tasks EXCEPT ![t] = [@ EXCEPT !.status = "done", !.ok = o.ok,
                                                      !.vals = o.vals, !.nulls = o.nulls,
                                                      !.msg = o.msg,
                                                      !.done_at = Len(acks)]]
    /\ UNCHANGED <<config_vars, os_environ, clock, pc, frame_count, chunk_count,
                   inference_failures, start_time, chunk_window_start, buffered_frames,
                   pending_inference_task, latest_inference_result, inference_session,
                   acks, open_case, exit_cause, close_calls, close_outcome, summary, handler_result,
                   appended_since_cut>>

\* the finally block without lines 111-114: an unfinished task is left running
LeaveLoopWithoutCancel(cause) ==
    /\ exit_cause' = cause
    /\ pc' = "closing"
    /\ tasks' = IF pending_inference_task # 0 /\ TaskDone(pending_inference_task)
                THEN [tasks EXCEPT ![pending_inference_task].drained = TRUE]
                ELSE tasks
    /\ UNCHANGED <<config_vars, os_environ, clock, frame_count, chunk_count,
                   inference_failures, start_time, chunk_window_start, buffered_frames,
                   pending_inference_task, latest_inference_result, inference_session,
                   acks, open_case, close_calls, close_outcome, summary, handler_result,
                   appended_since_cut>>

\* a teardown written in the except clause of the disconnect instead of a
\* finally block: any other error leaves the handler at once
LeaveLoopTeardownOnDisconnectOnly(cause) ==
    /\ exit_cause' = cause
    /\ IF cause # "disconnect"
       THEN /\ pc' = "closed"
            /\ tasks' = tasks
            /\ handler_result' = "raised"
       ELSE IF pending_inference_task = 0
       THEN /\ pc' = "closing"
            /\ tasks' = tasks
            /\ handler_result' = handler_result
       ELSE IF TaskDone(pending_inference_task)
       THEN /\ pc' = "closing"
            /\ tasks' = [tasks EXCEPT ![pending_inference_task].drained = TRUE]
            /\ handler_result' = handler_result
       ELSE /\ pc' = "await_cancel"
            /\ tasks' = [tasks EXCEPT ![pending_inference_task].status = "cancelling"]
            /\ handler_result' = handler_result
    /\ UNCHANGED <<config_vars, os_environ, clock, frame_count, chunk_count,
                   inference_failures, start_time, chunk_window_start, buffered_frames,
                   pending_inference_task, latest_inference_result, inference_session,
                   acks, open_case, close_calls, close_outcome, summary, appended_since_cut>>

\* ------------------------------------------------ video_stream, lines 102-115
\* leaving the loop: the except clause and the finally block up to its first
\* suspension (no await lies between the exception and the done() test)
LeaveLoop(cause) ==
    /\ exit_cause' = cause
    /\ IF pending_inference_task = 0
       THEN /\ pc' = "closing"
            /\ tasks' = tasks
            /\ handler_result' = handler_result
       ELSE IF TaskDone(pending_inference_task)
       THEN IF consume_inference_task(tasks[pending_inference_task]).raised
            THEN /\ pc' = "closed"
                 /\ tasks' = tasks
                 /\ handler_result' = "raised"
            ELSE /\ pc' = "closing"
                 /\ tasks' = [tasks EXCEPT ![pending_inference_task].drained = TRUE]
                 /\ handler_result' = handler_result
       ELSE /\ pc' = "await_cancel"
            /\ tasks' = [tasks EXCEPT ![pending_inference_task].status = "cancelling"]
            /\ handler_result' = handler_result
    /\ UNCHANGED <<config_vars, os_environ, clock, frame_count, chunk_count,
                   inference_failures, start_time, chunk_window_start, buffered_frames,
                   pending_inference_task, latest_inference_result, inference_session,
                   acks, open_case, close_calls, close_outcome, summary, appended_since_cut>>

\* receive_bytes raises WebSocketDisconnect
Disconnect ==
    /\ pc = "streaming"
    /\ LeaveLoop("disconnect")

\* receive_bytes raises anything else
ReceiveError ==
    /\ pc = "streaming"
    /\ LeaveLoop("error")

\* send_json returns
SendReturns ==
    /\ pc = "sending"
    /\ pc' = "streaming"
    /\ UNCHANGED <<config_vars, os_environ, clock, frame_count, chunk_count,
                   inference_failures, start_time, chunk_window_start, buffered_frames,
                   pending_inference_task, latest_inference_result, inference_session,
                   tasks, acks, open_case, exit_cause, close_calls, close_outcome, summary,
                   handler_result, appended_since_cut>>

\* send_json raises WebSocketDisconnect (the peer left while the ack was written)
SendDisconnect ==
    /\ pc = "sending"
    /\ LeaveLoop("disconnect")

\* send_json raises anything else
SendError ==
    /\ pc = "sending"
    /\ LeaveLoop("error")

\* a wait bounded by a timeout: the handler goes on to close the session while
\* the cancelled computation has not settled
CancelSettlesTimingOut ==
    /\ pc = "await_cancel"
    /\ pc' = "closing"
    /\ UNCHANGED <<config_vars, os_environ, clock, frame_count, chunk_count,
                   inference_failures, start_time, chunk_window_start, buffered_frames,
                   pending_inference_task, latest_inference_result, inference_session,
                   tasks, acks, open_case, exit_cause, close_calls, close_outcome,
                   summary, handler_result, appended_since_cut>>

\* ------------------------------------------------ video_stream, lines 112-114
\* the cancelled task settles: infer_chunk catches nothing, so the task ends
\* cancelled and the await raises CancelledError, which is suppressed
CancelSettles ==
    /\ pc = "await_cancel"
    /\ tasks' = [tasks EXCEPT ![pending_inference_task].status = "cancelled"]
    /\ pc' = "closing"
    /\ UNCHANGED <<config_vars, os_environ, clock, frame_count, chunk_count,
                   inference_failures, start_time, chunk_window_start, buffered_frames,
                   pending_inference_task, latest_inference_result, inference_session,
                   acks, open_case, exit_cause, close_calls, close_outcome, summary, handler_result,
                   appended_since_cut>>

\* a close without its try blocks: the first failure leaves the call
session_close_propagating(session, remoteRaises, clientRaises) ==
    IF session.kind = "noop"
    THEN [called |-> TRUE, raised |-> FALSE, remote_failed |-> FALSE,
          remote_closed |-> FALSE, client_close_tried |-> FALSE,
          client_failed |-> FALSE, client_closed |-> FALSE]
    ELSE [called |-> TRUE,
          raised |-> remoteRaises \/ (session.client /\ clientRaises),
          remote_failed |-> remoteRaises,
          remote_closed |-> ~remoteRaises,
          client_close_tried |-> session.client /\ ~remoteRaises,
          client_failed |-> session.client /\ ~remoteRaises /\ clientRaises,
          client_closed |-> session.client /\ ~remoteRaises /\ ~clientRaises]

\* one try block around both closes: a failure of the remote close is swallowed
\* but skips the client's close
session_close_skipping_client(session, remoteRaises, clientRaises) ==
    IF session.kind = "noop"
    THEN [called |-> TRUE, raised |-> FALSE, remote_failed |-> FALSE,
          remote_closed |-> FALSE, client_close_tried |-> FALSE,
          client_failed |-> FALSE, client_closed |-> FALSE]
    ELSE [called |-> TRUE, raised |-> FALSE, remote_failed |-> remoteRaises,
          remote_closed |-> ~remoteRaises,
          client_close_tried |-> session.client /\ ~remoteRaises,
          client_failed |-> session.client /\ ~remoteRaises /\ clientRaises,
          client_closed |-> session.client /\ ~remoteRaises /\ ~clientRaises]

\* ------------------------------------------------ the sessions' close
\* NoopVisionInferenceSession.close returns None; ModalVisionInferenceSession.close
\* swallows a failure of the remote close and of the client's close
session_close(session, remoteRaises, clientRaises) ==
    IF session.kind = "noop"
    THEN [called |-> TRUE, raised |-> FALSE, remote_failed |-> FALSE,
          remote_closed |-> FALSE, client_close_tried |-> FALSE,
          client_failed |-> FALSE, client_closed |-> FALSE]
    ELSE [called |-> TRUE, raised |-> FALSE, remote_failed |-> remoteRaises,
          remote_closed |-> ~remoteRaises,
          client_close_tried |-> session.client,
          client_failed |-> session.client /\ clientRaises,
          client_closed |-> session.client /\ ~clientRaises]

\* ------------------------------------------------ video_stream, lines 116-125
SessionClose ==
    /\ pc = "closing"
    /\ close_calls' = close_calls + 1
    /\ \E remoteRaises \in BOOLEAN, clientRaises \in BOOLEAN :
         LET closed == session_close(inference_session, remoteRaises, clientRaises)
         IN /\ close_outcome' = closed
            /\ IF closed.raised
               THEN /\ summary' = summary
                    /\ handler_result' = "raised"
               ELSE /\ summary' = [emitted |-> TRUE, frames |-> frame_count,
                                   chunks |-> chunk_count,
                                   inference_failures |-> inference_failures]
                    /\ handler_result' = IF exit_cause = "disconnect"
                                         THEN "returned" ELSE "raised"
    /\ pc' = "closed"
    /\ UNCHANGED <<config_vars, os_environ, clock, frame_count, chunk_count,
                   inference_failures, start_time, chunk_window_start, buffered_frames,
                   pending_inference_task, latest_inference_result, inference_session,
                   tasks, acks, open_case, exit_cause, appended_since_cut>>

\* ------------------------------------------------ video_stream, lines 37-43
\* the process accepts its next connection: a new invocation of the handler,
\* with new locals, in the same process (module state and os.environ stay)
Accept ==
    /\ pc = "closed"
    /\ connections < MaxConnections
    /\ connections' = connections + 1
    /\ pc' = "connecting"
    /\ frame_count' = 0
    /\ chunk_count' = 0
    /\ inference_failures' = 0
    /\ buffered_frames' = <<>>
    /\ pending_inference_task' = 0
    /\ latest_inference_result' = NoResult
    /\ inference_session' = UnopenedSession
    /\ tasks' = <<>>
    /\ acks' = <<>>
    /\ open_case' = NoOpenCase
    /\ exit_cause' = "none"
    /\ close_calls' = 0
    /\ close_outcome' = NoCloseOutcome
    /\ summary' = NoSummary
    /\ handler_result' = "running"
    /\ appended_since_cut' = 0
    /\ UNCHANGED <<VISION_CHUNK_SECONDS, VISION_MAX_BUFFER_FRAMES, environ_at_start,
                   os_environ, clock, start_time, chunk_window_start>>

Next ==
    \/ Connect
    \/ ReceiveFrame
    \/ InferenceSettles
    \/ SendReturns
    \/ Disconnect
    \/ ReceiveError
    \/ SendDisconnect
    \/ SendError
    \/ CancelSettles
    \/ SessionClose

Spec == Init /\ [][Next]_vars

\* a process whose buffer capacity is the largest the environment gives
InitLargestBuffer == Init /\ VISION_MAX_BUFFER_FRAMES = Max2(MaxBufferEnv, 1)

\* the connection up to the moment it leaves the receive loop
NextStreaming ==
    \/ Connect
    \/ ReceiveFrame
    \/ InferenceSettles
    \/ SendReturns
    \/ Disconnect
    \/ ReceiveError
    \/ SendDisconnect
    \/ SendError

\* a peer that keeps sending: a frame that can be received eventually is, and a
\* send_json that can return eventually does
SpecFrames ==
    /\ InitLargestBuffer
    /\ [][NextStreaming]_vars
    /\ WF_vars(ReceiveFrame)
    /\ WF_vars(SendReturns)

\* a remote side that reacts: a cancelled computation settles eventually and
\* the session's close returns eventually
SpecTeardown ==
    /\ InitLargestBuffer
    /\ [][Next]_vars
    /\ WF_vars(CancelSettles)
    /\ WF_vars(SessionClose)

\* the process serving several connections one after the other
NextConnections ==
    \/ Next
    \/ Accept

SpecConnections == Init /\ [][NextConnections]_vars

\* =============================================================== properties
Undrained == {t \in DOMAIN tasks : ~tasks[t].drained /\ tasks[t].status # "cancelled"}
AcksMerging(t) == {i \in DOMAIN acks : acks[i].merged = t}
TaskResult(t) == consume_inference_task(tasks[t])

\* C1: at any moment at most one launched computation has not been drained from
\* the slot (or cancelled at teardown), and it is the one the slot holds: no chunk
\* is launched while an earlier one is unresolved, whatever the timing of frames
\* and of the inference.
C1_AtMostOneUnresolved ==
    /\ Cardinality(Undrained) <= 1
    /\ \A t \in Undrained : pending_inference_task = t
    /\ Len(tasks) = chunk_count

\* C1 witness: a frame was processed while the slot's computation was still running
\* and a cut was otherwise due (chunk duration 0, buffer non-empty).
C1_Witness ==
    /\ pending_inference_task # 0
    /\ tasks[pending_inference_task].status = "running"
    /\ frame_count > tasks[pending_inference_task].launched_at
    /\ VISION_CHUNK_SECONDS = 0
    /\ buffered_frames # <<>>

\* C2 (as stated): once the connection is closed, every computation that completed
\* has its result in exactly one ack.
C2_Original ==
    pc = "closed" =>
        \A t \in DOMAIN tasks :
            tasks[t].status = "done" => Cardinality(AcksMerging(t)) = 1

\* C2 (amended): the result of a completed computation is merged into at most one
\* ack; it is merged into exactly one precisely when the result map is non-empty
\* and a frame was received after the computation completed.
C2_AtMostOnce ==
    \A t \in DOMAIN tasks :
        /\ Cardinality(AcksMerging(t)) <= 1
        /\ tasks[t].status # "done" => AcksMerging(t) = {}
        /\ tasks[t].status = "done" =>
              (Cardinality(AcksMerging(t)) = 1
                 <=> (DictTruthy(TaskResult(t)) /\ Len(acks) > tasks[t].done_at))

\* C2 witness: two computations completed, each merged into its own single ack.
C2_Witness ==
    /\ Len(tasks) >= 2
    /\ Cardinality(AcksMerging(1)) = 1
    /\ Cardinality(AcksMerging(2)) = 1
    /\ AcksMerging(1) # AcksMerging(2)

\* an ack carries the result of computation t: it was merged from t and every
\* non-null field of the result is in the payload with the result's value
Carries(i, t) ==
    /\ DictTruthy(TaskResult(t)) => acks[i].merged = t
    /\ \A k \in DOMAIN TaskResult(t).vals :
          k \in DOMAIN acks[i].payload /\ acks[i].payload[k] = TaskResult(t).vals[k]

\* C3: the result of a completed computation is carried by the first ack composed
\* after it completed, no ack composed up to its completion was merged from it,
\* and the ack of the frame that launched it was not merged from it.
C3_FirstAckAfterCompletion ==
    \A t \in DOMAIN tasks :
        /\ acks[tasks[t].launched_at].merged # t
        /\ tasks[t].status = "done" =>
              /\ \A i \in DOMAIN acks : i <= tasks[t].done_at => acks[i].merged # t
              /\ Len(acks) > tasks[t].done_at => Carries(tasks[t].done_at + 1, t)

\* C3 witness: a computation completed some acks after its launch (not at once)
\* and the next ack carries its caption.
C3_Witness ==
    \E t \in DOMAIN tasks :
        /\ tasks[t].status = "done"
        /\ tasks[t].done_at > tasks[t].launched_at
        /\ Len(acks) > tasks[t].done_at
        /\ "caption" \in DOMAIN acks[tasks[t].done_at + 1].payload
        /\ acks[tasks[t].done_at + 1].merged = t

\* C4 (as stated): N received frames have produced N acks, the k-th ack carries
\* frame = k, and no frame is processed before the previous ack was handed over.
C4_Original ==
    /\ Len(acks) = frame_count
    /\ \A k \in DOMAIN acks : acks[k].payload["frame"] = k

\* C5: a frame received while the slot's computation is still running is
\* appended, scheduled and acked in the same step without the computation
\* completing, and its ack has no field besides frame and bytes.
C5_NeverWaits ==
    [][(/\ pc = "streaming"
        /\ pending_inference_task # 0
        /\ tasks[pending_inference_task].status = "running"
        /\ frame_count' = frame_count + 1)
       => (/\ pc' = "sending"
           /\ pending_inference_task' = pending_inference_task
           /\ tasks'[pending_inference_task].status = "running"
           /\ chunk_count' = chunk_count
           /\ Len(acks') = Len(acks) + 1
           /\ acks'[Len(acks')].merged = 0
           /\ DOMAIN acks'[Len(acks')].payload = {"frame", "bytes"}
           /\ Len(buffered_frames') >= 1
           /\ buffered_frames'[Len(buffered_frames')].seq = frame_count')]_vars

\* C5 witness: an ack was produced after the launch of a computation that is
\* still running.
C5_Witness ==
    /\ pending_inference_task # 0
    /\ tasks[pending_inference_task].status = "running"
    /\ Len(acks) > tasks[pending_inference_task].launched_at

\* C6: the buffer never holds more than VISION_MAX_BUFFER_FRAMES frames, and that
\* capacity is at least 1.
C6_BufferBounded ==
    /\ VISION_MAX_BUFFER_FRAMES >= 1
    /\ Len(buffered_frames) <= VISION_MAX_BUFFER_FRAMES

\* C6 witness: more frames than the capacity were appended since the last cut
\* while the slot stayed occupied, and the buffer is at capacity.
C6_Witness ==
    /\ appended_since_cut > VISION_MAX_BUFFER_FRAMES
    /\ Len(buffered_frames) = VISION_MAX_BUFFER_FRAMES
    /\ pending_inference_task # 0
    /\ tasks[pending_inference_task].status = "running"

\* C7: after a disconnect with a computation in the slot, the computation is
\* settled before the session is closed (drained if it had finished, cancelled
\* if not), and the handler ends with the summary emitted and without raising.
C7_CleanTeardown ==
    (exit_cause = "disconnect" /\ pending_inference_task # 0) =>
        /\ pc \in {"await_cancel", "closing", "closed"}
        /\ pc = "await_cancel" => tasks[pending_inference_task].status = "cancelling"
        /\ pc \in {"closing", "closed"} =>
              \/ tasks[pending_inference_task].status = "done"
                 /\ tasks[pending_inference_task].drained
              \/ tasks[pending_inference_task].status = "cancelled"
        /\ pc # "closed" => close_calls = 0 /\ ~summary.emitted
        /\ pc = "closed" =>
              /\ close_calls = 1
              /\ summary.emitted
              /\ summary.frames = frame_count
              /\ handler_result = "returned"

\* C7 witness: a connection closed after a disconnect that cancelled a running
\* computation.
C7_Witness ==
    /\ pc = "closed"
    /\ exit_cause = "disconnect"
    /\ pending_inference_task # 0
    /\ tasks[pending_inference_task].status = "cancelled"

\* C8: the step that finds the slot's computation failed stays in the receive
\* loop, acks the frame with the next frame number and an inference_error field
\* holding the failure's message, and frees the slot (empty, or refilled by a
\* newly launched chunk).
C8_FailureIsolated ==
    [][(/\ pc = "streaming"
        /\ pending_inference_task # 0
        /\ tasks[pending_inference_task].status = "done"
        /\ ~tasks[pending_inference_task].ok
        /\ frame_count' = frame_count + 1)
       => (/\ pc' = "sending"
           /\ exit_cause' = "none"
           /\ handler_result' = "running"
           /\ Len(acks') = frame_count'
           /\ acks'[Len(acks')].payload["frame"] = frame_count'
           /\ "inference_error" \in DOMAIN acks'[Len(acks')].payload
           /\ acks'[Len(acks')].payload["inference_error"]
                 = tasks[pending_inference_task].msg
           /\ tasks'[pending_inference_task].drained
           /\ pending_inference_task' # pending_inference_task
           /\ \/ pending_inference_task' = 0
              \/ /\ pending_inference_task' = Len(tasks) + 1
                 /\ tasks'[pending_inference_task'].status = "running")]_vars

\* C8 witness: after a failure was delivered in an ack, a later frame was acked
\* and a later chunk was launched.
C8_Witness ==
    \E t \in DOMAIN tasks :
        /\ tasks[t].status = "done"
        /\ ~tasks[t].ok
        /\ AcksMerging(t) # {}
        /\ Len(tasks) > t
        /\ \A i \in AcksMerging(t) : Len(acks) > i

\* C9 (as stated): every ack's bytes field is the byte length of the frame it
\* answers.
C9_Original ==
    \A i \in DOMAIN acks : acks[i].payload["bytes"] = acks[i].data_len

\* C10: open_session does not raise; when the credentials are missing, the SDK
\* cannot be imported or the initialization raises, the session is the no-op
\* session, and the connection is streaming.
C10_OpenNeverRaises ==
    open_case.called =>
        /\ pc # "connecting"
        /\ inference_session.kind \in {"noop", "modal"}
        /\ ~(pc = "closed" /\ exit_cause = "none")
        /\ (open_case.creds_missing \/ open_case.import_failed \/ open_case.init_raised)
              => inference_session = NoopSession
        /\ inference_session.kind = "noop"
              => (open_case.creds_missing \/ open_case.import_failed
                    \/ open_case.init_raised)

\* C10 witness: a frame was acked on a connection whose session initialization
\* raised.
C10_Witness ==
    /\ open_case.init_raised
    /\ inference_session = NoopSession
    /\ Len(acks) >= 1

\* C11: on a connection whose session is the no-op session, every computation
\* that completed returned an empty map, every ack has exactly the fields frame
\* and bytes and was merged from no result, no result is left pending, and the
\* failure counter is 0.
C11_NoopLeavesNoTrace ==
    (open_case.called /\ inference_session = NoopSession) =>
        /\ \A t \in DOMAIN tasks :
              tasks[t].status = "done" =>
                  tasks[t].ok /\ ~DictTruthy(TaskResult(t))
        /\ \A i \in DOMAIN acks :
              /\ DOMAIN acks[i].payload = {"frame", "bytes"}
              /\ acks[i].merged = 0
        /\ latest_inference_result.set => ~DictTruthy(latest_inference_result)
        /\ inference_failures = 0
        /\ summary.emitted => summary.inference_failures = 0

\* C11 witness: on a no-op connection a computation completed, was drained by the
\* poll of a later frame, and that frame was acked.
C11_Witness ==
    /\ inference_session = NoopSession
    /\ \E t \in DOMAIN tasks :
          /\ tasks[t].status = "done"
          /\ tasks[t].drained
          /\ Len(acks) > tasks[t].done_at
          /\ Len(acks) > tasks[t].launched_at

\* C12 (as stated): the session opened for a connection is the one the same
\* call opens in a process that served no other connection: no earlier
\* connection's headers, outcomes or teardown decide it.
C12_Original ==
    (open_case.called /\ pc # "connecting") =>
        inference_session.kind = open_case.alone.kind

\* the arrival numbers of a sequence of frames
Seqs(frames) == [i \in DOMAIN frames |-> frames[i].seq]

\* buffer capacity 2, chunk duration 0, three frames acked, and the first
\* computation resolved after the second ack and before the third frame
Scenario13 ==
    /\ VISION_MAX_BUFFER_FRAMES = 2
    /\ VISION_CHUNK_SECONDS = 0
    /\ Len(acks) >= 3
    /\ Len(tasks) >= 1
    /\ tasks[1].status = "done"
    /\ tasks[1].done_at = 2

\* C13 (as stated): in that scenario acks 1 and 2 have only frame and bytes, the
\* first chunk consists of frames 1 and 2, and ack 3 carries its result.
C13_Original ==
    Scenario13 =>
        /\ DOMAIN acks[1].payload = {"frame", "bytes"}
        /\ DOMAIN acks[2].payload = {"frame", "bytes"}
        /\ Seqs(tasks[1].frames) = <<1, 2>>
        /\ Carries(3, 1)

\* C13 (amended): in that scenario acks 1 and 2 have only frame and bytes, the
\* first chunk was cut in the step of frame 1 and consists of frame 1 alone,
\* ack 3 carries its result, and the step of frame 3 cuts the second chunk,
\* which consists of frames 2 and 3.
C13_FirstChunkIsFrameOne ==
    Scenario13 =>
        /\ DOMAIN acks[1].payload = {"frame", "bytes"}
        /\ DOMAIN acks[2].payload = {"frame", "bytes"}
        /\ acks[1].merged = 0 /\ acks[2].merged = 0
        /\ tasks[1].launched_at = 1
        /\ Seqs(tasks[1].frames) = <<1>>
        /\ Carries(3, 1)
        /\ Len(tasks) >= 2
        /\ tasks[2].launched_at = 3
        /\ Seqs(tasks[2].frames) = <<2, 3>>

\* C13 witness: the scenario happened and ack 3 has the first chunk's caption.
C13_Witness ==
    /\ Scenario13
    /\ acks[3].merged = 1
    /\ "caption" \in DOMAIN acks[3].payload
    /\ acks[3].payload["caption"] = CaptionText

\* a per-frame step that reached the ack
FrameStep == frame_count' = frame_count + 1 /\ pc' = "sending"
\* the step cut a chunk
CutInStep == chunk_count' = chunk_count + 1
\* the slot after the poll of the step: empty before it, or emptied by it
SlotFreeAfterPoll ==
    \/ pending_inference_task = 0
    \/ tasks[pending_inference_task].status = "done"
\* the buffer when the cut condition is evaluated: what the cut took, or what
\* the step left
BufferAtCut == IF CutInStep THEN tasks'[Len(tasks')].frames ELSE buffered_frames'

\* C14: a per-frame step cuts a chunk if and only if, after its poll, the slot
\* is empty, the buffer is non-empty and the time since chunk_window_start is at
\* least VISION_CHUNK_SECONDS; otherwise nothing about the chunks changes.
C14_CutIffDue ==
    [][FrameStep =>
         /\ CutInStep <=> (/\ SlotFreeAfterPoll
                           /\ BufferAtCut # <<>>
                           /\ clock' - chunk_window_start >= VISION_CHUNK_SECONDS)
         /\ CutInStep \/ chunk_count' = chunk_count
         /\ CutInStep => /\ Len(tasks') = Len(tasks) + 1
                         /\ pending_inference_task' = Len(tasks')
         /\ ~CutInStep => Len(tasks') = Len(tasks)]_vars

\* C14 witness: with a chunk duration of one tick the first frame came before
\* the duration had elapsed and cut nothing (slot empty, buffer non-empty), and
\* a later frame cut the first chunk.
C14_Witness ==
    /\ VISION_CHUNK_SECONDS = 1
    /\ Len(tasks) >= 1
    /\ tasks[1].launched_at >= 2

Min2(a, b) == IF a <= b THEN a ELSE b
\* the last n elements of a sequence
LastN(seq, n) == SubSeq(seq, Len(seq) - n + 1, Len(seq))
\* the frame the step received
FrameOfStep == [seq |-> frame_count', size |-> acks'[Len(acks')].data_len]
\* the buffer of the step once the frame is in it: the most recent frames, up
\* to the capacity, oldest first
BufferWithFrame ==
    LastN(Append(buffered_frames, FrameOfStep),
          Min2(Len(buffered_frames) + 1, VISION_MAX_BUFFER_FRAMES))

\* C15: a step that cuts a chunk hands the computation exactly the buffer's
\* frames in arrival order, empties the buffer, sets chunk_start_s to
\* max(chunk_window_start - start_time, 0) and chunk_end_s to
\* max(now - start_time, chunk_start_s), moves chunk_window_start to now and
\* increases the chunk counter by exactly 1.
C15_CutEffect ==
    [][(FrameStep /\ CutInStep) =>
         LET chunk == tasks'[Len(tasks')] IN
         /\ chunk.frames = BufferWithFrame
         /\ \A i \in 1..(Len(chunk.frames) - 1) :
               chunk.frames[i].seq < chunk.frames[i + 1].seq
         /\ buffered_frames' = <<>>
         /\ chunk.start_ts_s = Max2(chunk_window_start - start_time, 0)
         /\ chunk.end_ts_s = Max2(clock' - start_time, chunk.start_ts_s)
         /\ chunk_window_start' = clock'
         /\ chunk_count' = chunk_count + 1
         /\ chunk.status = "running"]_vars

\* C15 witness: a chunk of two frames was cut whose window did not start at the
\* connection's start and lasted at least one tick.
C15_Witness ==
    \E t \in DOMAIN tasks :
        /\ Len(tasks[t].frames) >= 2
        /\ tasks[t].start_ts_s > 0
        /\ tasks[t].end_ts_s > tasks[t].start_ts_s

\* C16: a per-frame step taken while the slot holds an unfinished computation
\* creates no task and leaves the slot, chunk_window_start and the chunk counter
\* as they were, whatever the elapsed time; the buffer gains the frame, losing
\* its oldest frame if it was at capacity.
C16_NeverQueued ==
    [][(/\ pc = "streaming"
        /\ pending_inference_task # 0
        /\ tasks[pending_inference_task].status = "running"
        /\ frame_count' = frame_count + 1)
       => (/\ tasks' = tasks
           /\ pending_inference_task' = pending_inference_task
           /\ chunk_window_start' = chunk_window_start
           /\ chunk_count' = chunk_count
           /\ buffered_frames' = BufferWithFrame
           /\ Len(buffered_frames') =
                  Min2(Len(buffered_frames) + 1, VISION_MAX_BUFFER_FRAMES))]_vars

\* C16 witness: while the slot's computation runs, a frame arrived after the
\* chunk duration had elapsed and with the buffer at capacity, and evicted the
\* oldest frame instead of being cut into a chunk.
C16_Witness ==
    /\ pending_inference_task # 0
    /\ tasks[pending_inference_task].status = "running"
    /\ clock - chunk_window_start >= VISION_CHUNK_SECONDS
    /\ Len(buffered_frames) = VISION_MAX_BUFFER_FRAMES
    /\ buffered_frames[1].seq > tasks[pending_inference_task].launched_at + 1

\* C17: with k frames appended since the last cut (or since the connection
\* started) and capacity N, the buffer holds the min(k, N) most recent frames
\* received, oldest first, each with the length it arrived with.
C17_MostRecentFrames ==
    /\ Len(buffered_frames) = Min2(appended_since_cut, VISION_MAX_BUFFER_FRAMES)
    /\ \A i \in DOMAIN buffered_frames :
          /\ buffered_frames[i].seq = frame_count - Len(buffered_frames) + i
          /\ buffered_frames[i].seq \in DOMAIN acks
                => buffered_frames[i].size = acks[buffered_frames[i].seq].data_len

\* C17 witness: more frames than the capacity were appended since the last cut
\* and the capacity is 2: the buffer holds the last two, the older ones are gone.
C17_Witness ==
    /\ VISION_MAX_BUFFER_FRAMES = 2
    /\ appended_since_cut > 2
    /\ Len(buffered_frames) = 2
    /\ buffered_frames[1].seq = frame_count - 1
    /\ buffered_frames[2].seq = frame_count

\* a per-frame step whose poll finds the slot's computation finished
PollFindsDone ==
    /\ pc = "streaming"
    /\ pending_inference_task # 0
    /\ tasks[pending_inference_task].status = "done"
    /\ frame_count' = frame_count + 1

\* C18 (as stated): a poll that finds the computation finished with a failure
\* clears the slot, yields a result whose inference_error is the failure's
\* message and adds exactly 1 to the failure counter, whatever the message; a
\* poll that finds it finished successfully leaves the counter unchanged.
C18_Original ==
    [][PollFindsDone =>
         /\ tasks'[pending_inference_task].drained
         /\ pending_inference_task' # pending_inference_task
         /\ ~tasks[pending_inference_task].ok =>
               /\ acks'[Len(acks')].merged = pending_inference_task
               /\ "inference_error" \in DOMAIN acks'[Len(acks')].payload
               /\ acks'[Len(acks')].payload["inference_error"]
                     = tasks[pending_inference_task].msg
               /\ inference_failures' = inference_failures + 1
         /\ tasks[pending_inference_task].ok =>
               inference_failures' = inference_failures]_vars

\* the slot's computation is settled: the slot is empty, or its computation
\* finished and was drained, or it was cancelled and the cancellation settled
SlotSettled ==
    \/ pending_inference_task = 0
    \/ /\ tasks[pending_inference_task].status = "done"
       /\ tasks[pending_inference_task].drained
    \/ tasks[pending_inference_task].status = "cancelled"

\* C19: once the receive loop is left, by a disconnect or by any other error,
\* the handler is in teardown; the session's close is not called before the
\* slot is settled, it is called at most once, and exactly once by the time
\* the handler ends.
C19_SettleThenClose ==
    /\ close_calls <= 1
    /\ exit_cause = "none" => close_calls = 0
    /\ exit_cause # "none" =>
          /\ pc \in {"await_cancel", "closing", "closed"}
          /\ pc = "await_cancel" =>
                /\ tasks[pending_inference_task].status = "cancelling"
                /\ close_calls = 0
          /\ pc = "closing" => SlotSettled /\ close_calls = 0
          /\ pc = "closed" => SlotSettled /\ close_calls = 1

\* C19 witness: the loop was left by an error other than a disconnect while the
\* slot's computation was running; it was cancelled and the session was closed.
C19_Witness ==
    /\ pc = "closed"
    /\ exit_cause = "error"
    /\ pending_inference_task # 0
    /\ tasks[pending_inference_task].status = "cancelled"
    /\ close_calls = 1

FailedTasks == {t \in DOMAIN tasks : tasks[t].status = "done" /\ ~tasks[t].ok}

\* C21 (as stated): the summary reports the frames received, the chunks launched
\* and the number of launched computations that finished with a failure, a
\* failed computation first drained during teardown included.
C21_Original ==
    summary.emitted =>
        /\ summary.frames = Len(acks)
        /\ summary.chunks = Len(tasks)
        /\ summary.inference_failures = Cardinality(FailedTasks)

\* the connection's state, read off the handler's position and the way the
\* receive loop was left
Phase ==
    IF pc = "connecting" THEN "CONNECTING"
    ELSE IF pc \in {"streaming", "sending"} THEN "STREAMING"
    ELSE IF pc = "closed" THEN "CLOSED"
    ELSE IF exit_cause = "disconnect" THEN "CLOSING_CLEAN"
    ELSE "CLOSING_ON_ERROR"

PhaseMoves ==
    { <<"CONNECTING", "STREAMING">>,
      <<"STREAMING", "CLOSING_CLEAN">>, <<"STREAMING", "CLOSING_ON_ERROR">>,
      <<"CLOSING_CLEAN", "CLOSED">>, <<"CLOSING_ON_ERROR", "CLOSED">> }

\* C22: a connection only moves CONNECTING -> STREAMING -> CLOSING_CLEAN or
\* CLOSING_ON_ERROR -> CLOSED; a frame is counted, an ack composed or a chunk
\* launched only by a step that starts and ends in STREAMING; and either closing
\* state reaches CLOSED by the same step: the slot settled, the session's close
\* called once, the summary emitted.
C22_Lifecycle ==
    [][/\ Phase' = Phase \/ <<Phase, Phase'>> \in PhaseMoves
       /\ (\/ frame_count' # frame_count
           \/ acks' # acks
           \/ Len(tasks') # Len(tasks)
           \/ chunk_count' # chunk_count)
             => (Phase = "STREAMING" /\ Phase' = "STREAMING")
       /\ (Phase \in {"CLOSING_CLEAN", "CLOSING_ON_ERROR"} /\ Phase' = "CLOSED")
             => /\ SlotSettled
                /\ close_calls = 0 /\ close_calls' = 1
                /\ ~summary.emitted /\ summary'.emitted
                /\ exit_cause' = exit_cause]_vars

\* C22 witness: a connection that streamed two frames and launched a chunk
\* ended through CLOSING_ON_ERROR.
C22_Witness ==
    /\ Phase = "CLOSED"
    /\ exit_cause = "error"
    /\ Len(acks) >= 2
    /\ Len(tasks) >= 1
    /\ summary.emitted

\* computation t completed with a non-empty result
CompletedNonEmpty(t) ==
    /\ t \in DOMAIN tasks
    /\ tasks[t].status = "done"
    /\ DictTruthy(TaskResult(t))

\* the completed non-empty results not yet merged into an ack; a result once
\* merged stays merged, so this set empties only by merging
Unsurfaced == {t \in DOMAIN tasks : CompletedNonEmpty(t) /\ AcksMerging(t) = {}}

\* C23: while frames keep arriving, a computation that completed with a
\* non-empty result (a failure included) has its result merged into an ack
\* eventually; the only other outcome is that the connection leaves streaming.
C23_ResultSurfaces ==
    (Unsurfaced # {}) ~> (Unsurfaced = {} \/ exit_cause # "none")

\* C23 witness: a computation that completed after the ack of a later frame than
\* the one that launched it has its caption in a still later ack, on a
\* connection that is still streaming.
C23_Witness ==
    /\ exit_cause = "none"
    /\ \E t \in DOMAIN tasks :
          /\ CompletedNonEmpty(t)
          /\ tasks[t].done_at > tasks[t].launched_at
          /\ \E i \in AcksMerging(t) :
                i > tasks[t].done_at /\ "caption" \in DOMAIN acks[i].payload

LeftStreaming == exit_cause # "none"
ClosedWithSummary == pc = "closed" /\ close_calls = 1 /\ summary.emitted

\* C24: when a cancelled computation eventually settles and the session's close
\* eventually returns, a connection that left the receive loop eventually is
\* closed with the summary emitted; and the handler has no timeout: while it
\* waits for the cancelled computation it takes no step of its own, the
\* only step out of that wait being the computation settling as cancelled.
C24_TeardownTerminates ==
    /\ LeftStreaming ~> ClosedWithSummary
    /\ [][pc = "await_cancel" =>
             /\ pc' = "closing"
             /\ pending_inference_task' = pending_inference_task
             /\ tasks[pending_inference_task].status = "cancelling"
             /\ tasks'[pending_inference_task].status = "cancelled"
             /\ close_calls' = 0
             /\ ~summary'.emitted]_vars

\* C24 witness: a connection that waited for a cancelled computation is closed
\* with the summary emitted.
C24_Witness ==
    /\ ClosedWithSummary
    /\ pending_inference_task # 0
    /\ tasks[pending_inference_task].status = "cancelled"
    /\ Len(acks) >= 2

\* C25: ModalVisionInferenceSession.close never raises. The remote close is
\* always attempted; when it fails the failure is swallowed and the client's
\* close is attempted all the same (whenever the session holds a client), and a
\* failure of the client's close is swallowed as well, so that the handler goes
\* on to its summary.
C25_ModalCloseNeverRaises ==
    (close_outcome.called /\ inference_session.kind = "modal") =>
        /\ ~close_outcome.raised
        /\ close_outcome.remote_failed # close_outcome.remote_closed
        /\ close_outcome.client_close_tried = inference_session.client
        /\ close_outcome.client_close_tried
              => (close_outcome.client_failed # close_outcome.client_closed)
        /\ ~close_outcome.client_close_tried
              => (~close_outcome.client_failed /\ ~close_outcome.client_closed)
        /\ pc = "closed"
        /\ summary.emitted

\* C25 witness: a Modal session holding a client was closed after a receive
\* error; the remote close failed, the client's close was attempted and failed
\* too, and close returned.
C25_Witness ==
    /\ close_outcome.called
    /\ inference_session.kind = "modal"
    /\ inference_session.client
    /\ exit_cause = "error"
    /\ close_outcome.remote_failed
    /\ close_outcome.client_close_tried
    /\ close_outcome.client_failed
    /\ ~close_outcome.raised

\* the ack of the frame received in the step
AckOfStep == acks'[Len(acks')]
RequiredFields == {"frame", "bytes"}

\* C26: in a per-frame step that composes its ack with a Pending Result present
\* (the one its poll drained, or one kept from an earlier step), the ack's
\* fields are frame, bytes and the result's fields with a non-null value, each
\* of the latter with the result's value, and no field of the result with a
\* null value is added; with no Pending Result the ack is exactly
\* {frame: the frame count, bytes: the payload length}.
C26_AckFields ==
    [][FrameStep =>
         LET result == Poll.result
             payload == AckOfStep.payload
         IN IF result.set
            THEN /\ DOMAIN payload = RequiredFields \cup DOMAIN result.vals
                 /\ \A k \in DOMAIN result.vals : payload[k] = result.vals[k]
                 /\ \A k \in result.nulls \ RequiredFields : k \notin DOMAIN payload
            ELSE /\ DOMAIN payload = RequiredFields
                 /\ payload["frame"] = frame_count'
                 /\ payload["bytes"] = AckOfStep.data_len]_vars

\* C26 witness: one ack was composed with no result and is exactly {frame,
\* bytes}; another was merged from a result with a caption and a latency; a
\* third from a result whose caption is null, and has no caption.
C26_Witness ==
    /\ \E i \in DOMAIN acks :
          acks[i].merged = 0 /\ DOMAIN acks[i].payload = RequiredFields
    /\ \E i \in DOMAIN acks :
          /\ acks[i].merged # 0
          /\ "caption" \in DOMAIN TaskResult(acks[i].merged).vals
          /\ acks[i].payload["caption"] = CaptionText
          /\ "latency_ms" \in DOMAIN acks[i].payload
    /\ \E i \in DOMAIN acks :
          /\ acks[i].merged # 0
          /\ "caption" \in TaskResult(acks[i].merged).nulls
          /\ "caption" \notin DOMAIN acks[i].payload
          /\ "latency_ms" \in DOMAIN acks[i].payload

\* C27 (as stated): an ack into which a result was merged still has frame equal
\* to the frame count and bytes equal to the payload length, also when the
\* result has fields named frame or bytes.
C27_Original ==
    \A i \in DOMAIN acks :
        acks[i].merged # 0 =>
            /\ acks[i].payload["frame"] = i
            /\ acks[i].payload["bytes"] = acks[i].data_len

\* C28: the time windows of a connection's chunks tile its timeline: the first
\* chunk's start_ts is 0, every later chunk's start_ts is the previous chunk's
\* end_ts, and start_ts <= end_ts for every chunk, whatever the delay between
\* the moment a cut was due and the moment it happened.
C28_WindowsTile ==
    \A t \in DOMAIN tasks :
        /\ tasks[t].start_ts_s = IF t = 1 THEN 0 ELSE tasks[t - 1].end_ts_s
        /\ tasks[t].start_ts_s <= tasks[t].end_ts_s

\* C28 witness: with a chunk duration of 0 every frame is due to cut; the second
\* chunk was cut two frames after the first because the first computation was
\* still running at the frame in between, and its window starts, after the
\* connection's start, where the first one ended and lasts at least one tick.
C28_Witness ==
    /\ VISION_CHUNK_SECONDS <= 0
    /\ Len(tasks) >= 2
    /\ tasks[2].launched_at > tasks[1].launched_at + 1
    /\ tasks[1].end_ts_s > 0
    /\ tasks[2].start_ts_s = tasks[1].end_ts_s
    /\ tasks[2].end_ts_s > tasks[2].start_ts_s

\* the sequence numbers of the frames of chunk t
ChunkSeqs(t) == {tasks[t].frames[i].seq : i \in DOMAIN tasks[t].frames}

\* C29: every chunk handed to inference has at least one frame and at most as
\* many as the buffer's capacity, its frames are distinct, its last frame is the
\* frame whose receipt made the cut, and no frame is in two chunks.
C29_ChunkShape ==
    /\ \A t \in DOMAIN tasks :
          /\ Len(tasks[t].frames) >= 1
          /\ Len(tasks[t].frames) <= VISION_MAX_BUFFER_FRAMES
          /\ Cardinality(ChunkSeqs(t)) = Len(tasks[t].frames)
          /\ tasks[t].frames[Len(tasks[t].frames)].seq = tasks[t].launched_at
    /\ \A t1, t2 \in DOMAIN tasks : t1 # t2 => ChunkSeqs(t1) \cap ChunkSeqs(t2) = {}

\* C29 witness: a chunk of one frame was followed by a chunk that fills a buffer
\* of capacity 2 or more and ends with the frame that was received last.
C29_Witness ==
    /\ VISION_MAX_BUFFER_FRAMES >= 2
    /\ Len(tasks) >= 2
    /\ Len(tasks[1].frames) = 1
    /\ Len(tasks[2].frames) = VISION_MAX_BUFFER_FRAMES
    /\ tasks[2].frames[Len(tasks[2].frames)].seq = frame_count

\* the computations a poll of the receive loop has drained: in the loop, every
\* drained computation; after it, the drained ones except the one the finally
\* block consumed, which the slot still holds
DrainedByPoll ==
    {t \in DOMAIN tasks :
        /\ tasks[t].drained
        /\ pc \notin {"streaming", "sending"} => t # pending_inference_task}
SlotOccupancy == IF pending_inference_task # 0 THEN 1 ELSE 0

====
